---- MODULE Spec2Model ----
(***************************************************************************)
(* Model of the marvin dispatch engine (marvin/marvin.py): the three       *)
(* routing tables filled by Marvin.answer, the per-conversation _Session   *)
(* pipeline (handle_text_message, prepare_answer, handle_answer,           *)
(* handle_error, on_callback_query, handle_sticker) and the resolution of  *)
(* an Answer into the text that is sent (Answer._apply_language).          *)
(* Strings whose characters matter (route patterns, inbound texts,         *)
(* language codes) are sequences of one-character strings.                 *)
(***************************************************************************)
EXTENDS Integers, Sequences, FiniteSets, TLC

\* ---------------------------------------------------------------- bounds
MaxRegs == 2        \* route registrations made before listen()
MaxEvents == 3      \* inbound events delivered to the session
MaxFail == 2        \* transport failures injected over one run

\* The interpreter's recursion limit, counted in nestings of
\* handle_error -> prepare_answer; more than the transport failures of a run,
\* so only a recursion that never ends by itself reaches it.
RecursionLimit == MaxFail + 2

None == "None"

\* ------------------------------------------------- strings as sequences
T_hi == <<"h", "i">>
T_hdot == <<"h", ".">>
T_bsd == <<"\\", "d">>
T_one == <<"1">>
T_hole == <<"h", "{", "}">>
T_x == <<"x">>

\* The patterns a route can be registered under and the inbound texts.
Patterns == {T_hi, T_hdot, T_bsd, T_hole}
Texts == {T_hi, T_hdot, T_bsd, T_one, T_hole, T_x}
Digits == {"1"}

Mode == {"DEFAULT", "PARSE", "REGEX"}
Handlers == {"h1", "h2"}
BuiltinDefault == "default_answer"

\* --------------------------------------------------------------- matching
\* Tokens of a regular expression: "\d" is the digit class, "." any
\* character, everything else a literal; each token consumes one character.
RECURSIVE RegexTokens(_)
RegexTokens(p) ==
  IF p = <<>> THEN <<>>
  ELSE IF Len(p) >= 2 /\ p[1] = "\\" /\ p[2] = "d"
       THEN <<[cls |-> "digit"]>> \o RegexTokens(SubSeq(p, 3, Len(p)))
  ELSE IF p[1] = "."
       THEN <<[cls |-> "any"]>> \o RegexTokens(Tail(p))
  ELSE <<[cls |-> "lit", ch |-> p[1]]>> \o RegexTokens(Tail(p))

TokenMatches(tok, c) ==
  CASE tok.cls = "digit" -> c \in Digits
    [] tok.cls = "any" -> TRUE
    [] OTHER -> tok.ch = c

\* RegExDict.__contains__ for one pattern: the compiled pattern matches the
\* full text.
RegexMatches(p, text) ==
  LET toks == RegexTokens(p)
  IN /\ Len(toks) = Len(text)
     /\ \A i \in 1..Len(toks) : TokenMatches(toks[i], text[i])

\* Tokens of a parse pattern: "{}" is a placeholder, the rest literals.
RECURSIVE ParseTokens(_)
ParseTokens(p) ==
  IF p = <<>> THEN <<>>
  ELSE IF Len(p) >= 2 /\ p[1] = "{" /\ p[2] = "}"
       THEN <<[cls |-> "hole"]>> \o ParseTokens(SubSeq(p, 3, Len(p)))
  ELSE <<[cls |-> "lit", ch |-> p[1]]>> \o ParseTokens(Tail(p))

\* A placeholder takes one or more characters, a literal exactly itself.
RECURSIVE ParseTokensMatch(_, _)
ParseTokensMatch(toks, text) ==
  IF toks = <<>> THEN text = <<>>
  ELSE IF text = <<>> THEN FALSE
  ELSE IF toks[1].cls = "hole"
       THEN \E n \in 1..Len(text) :
              ParseTokensMatch(Tail(toks), SubSeq(text, n + 1, Len(text)))
  ELSE toks[1].ch = text[1] /\ ParseTokensMatch(Tail(toks), Tail(text))

\* ParsingDict.__contains__ for one pattern.
ParseMatches(p, text) == ParseTokensMatch(ParseTokens(p), text)

\* --------------------------------------------------------- python values
\* A text is a sequence of words; the word "{}" is a format placeholder.
K_hi == <<"hi">>
K_bye == <<"bye">>
K_err == <<"err">>
K_tmpl == <<"yo", "{}">>

PyNone == [ty |-> "none"]
PyStr(s) == [ty |-> "str", s |-> s]
PyInt(n) == [ty |-> "int", n |-> n]
PyList(items) == [ty |-> "list", items |-> items]

\* str(v)
Str(v) == IF v.ty = "str" THEN v.s
          ELSE IF v.ty = "int" THEN <<ToString(v.n)>>
          ELSE <<v.ty>>

\* Answer.__init__: the keyword arguments default to None, delay to 0.
\* msg holds the words of the payload and msg_ty its python type.
Answer(msg, format_content, callback) ==
  [ty |-> "Answer", msg |-> msg, msg_ty |-> "str", format_content |-> format_content,
   choices |-> PyNone, callback |-> callback, keyboard |-> PyNone,
   media_type |-> None, media |-> PyNone, caption |-> PyNone, delay |-> 0]

\* Answer(v, *format_content) for a payload v of any type: nothing converts it.
AnswerOf(v, format_content) ==
  [Answer(Str(v), format_content, None) EXCEPT !.msg_ty = v.ty]

\* Answer(msg, choices=c), Answer(msg, keyboard=k)
WithChoices(a, c) == [a EXCEPT !.choices = c]
WithKeyboard(a, k) == [a EXCEPT !.keyboard = k]

\* ------------------------------------------------------------ localization
L_de == <<"d", "e">>
L_DE == <<"D", "E">>
L_de_DE == <<"d", "e", "_", "D", "E">>
L_de_hy_DE == <<"d", "e", "-", "D", "E">>
L_fr == <<"f", "r">>
DefaultTable == <<"d", "e", "f", "a", "u", "l", "t">>
LanguageCodes == {L_de, L_DE, L_de_DE, L_de_hy_DE, L_fr}

\* The loaded lang.toml: {de: {hi: Hallo}, default: {hi: Hi, err: Sorry, yo {}: Yo {}}}
Language ==
  [t \in {L_de, DefaultTable} |->
     IF t = L_de
     THEN [k \in {K_hi} |-> <<"Hallo">>]
     ELSE [k \in {K_hi, K_err, K_tmpl} |->
             CASE k = K_hi -> <<"Hi">>
               [] k = K_err -> <<"Sorry">>
               [] OTHER -> <<"Yo", "{}">>]]

\* str.lower() on one character
LowerChar(c) ==
  CASE c = "D" -> "d"
    [] c = "E" -> "e"
    [] OTHER -> c

Lower(s) == [i \in 1..Len(s) |-> LowerChar(s[i])]

\* s.split(sep)[0]: the part before the first separator
RECURSIVE SplitFirst(_, _)
SplitFirst(s, sep) ==
  IF s = <<>> \/ s[1] = sep THEN <<>>
  ELSE <<s[1]>> \o SplitFirst(Tail(s), sep)

\* the split without the lower()
LangCodeCaseSensitive(code) == SplitFirst(code, "_")

\* language_code.split('_')[0].lower()
LangCode(code) == Lower(SplitFirst(code, "_"))

\* The number of "{}" placeholders of a template.
RECURSIVE Holes(_)
Holes(tmpl) ==
  IF tmpl = <<>> THEN 0
  ELSE (IF tmpl[1] = "{}" THEN 1 ELSE 0) + Holes(Tail(tmpl))

\* str.format(*args): the k-th placeholder becomes str(args[k]); surplus
\* arguments are ignored (a placeholder without argument is an IndexError,
\* see FormatRaises).
RECURSIVE Format(_, _)
Format(tmpl, args) ==
  IF tmpl = <<>> THEN <<>>
  ELSE IF tmpl[1] = "{}" /\ args # <<>>
       THEN Str(args[1]) \o Format(Tail(tmpl), Tail(args))
  ELSE <<tmpl[1]>> \o Format(Tail(tmpl), args)

FormatRaises(tmpl, args) == Holes(tmpl) > Len(args)

\* _apply_language raising on every miss, strict or not
ApplyLanguageAlwaysStrict(a, code, strict) ==
  LET lang_code == LangCode(code)
      hit_lang == lang_code \in DOMAIN Language /\ a.msg \in DOMAIN Language[lang_code]
      hit_default == a.msg \in DOMAIN Language[DefaultTable]
      found == IF hit_lang THEN Language[lang_code][a.msg]
               ELSE Language[DefaultTable][a.msg]
  IN IF ~hit_lang /\ ~hit_default
     THEN [exc |-> "KeyError", text |-> <<>>]
     ELSE IF Len(a.format_content) > 0
          THEN IF FormatRaises(found, a.format_content)
               THEN [exc |-> "IndexError", text |-> <<>>]
               ELSE [exc |-> None, text |-> Format(found, a.format_content)]
          ELSE [exc |-> None, text |-> found]

\* Answer._apply_language: [exc, text]; exc is None or the exception raised.
ApplyLanguage(a, code, strict) ==
  LET lang_code == LangCode(code)
      hit_lang == lang_code \in DOMAIN Language /\ a.msg \in DOMAIN Language[lang_code]
      hit_default == a.msg \in DOMAIN Language[DefaultTable]
      found == IF hit_lang THEN Language[lang_code][a.msg]
               ELSE Language[DefaultTable][a.msg]
  IN IF ~hit_lang /\ ~hit_default
     THEN IF strict THEN [exc |-> "KeyError", text |-> <<>>]
          ELSE [exc |-> None, text |-> a.msg]
     ELSE IF Len(a.format_content) > 0
          THEN IF FormatRaises(found, a.format_content)
               THEN [exc |-> "IndexError", text |-> <<>>]
               ELSE [exc |-> None, text |-> Format(found, a.format_content)]
          ELSE [exc |-> None, text |-> found]

\* s.split(sep, 1)[1]: the part after the first separator
RECURSIVE SplitRest(_, _)
SplitRest(s, sep) ==
  IF s = <<>> THEN <<>>
  ELSE IF s[1] = sep THEN Tail(s)
  ELSE SplitRest(Tail(s), sep)

Contains(s, w) == \E i \in 1..Len(s) : s[i] = w

\* Answer.media_commands; Media.TEXT is "text".
MediaCommands == {"sticker", "voice", "audio", "photo", "video", "document"}

\* the msg property without its "msg = None; self._msg = msg"
InferMediaKeepsText(a, t) ==
  LET command == SplitFirst(t, ":")
      payload == SplitRest(t, ":")
      known == Contains(t, ":") /\ Len(command) = 1 /\ command[1] \in MediaCommands
  IN IF known
     THEN [exc |-> None, text |-> t, cleared |-> FALSE,
           media_type |-> command[1],
           media |-> PyStr(IF Contains(payload, ";") THEN SplitFirst(payload, ";")
                           ELSE payload),
           caption |-> IF Contains(payload, ";") THEN PyStr(SplitRest(payload, ";"))
                       ELSE a.caption]
     ELSE [exc |-> None, text |-> t, cleared |-> FALSE, media_type |-> "text",
           media |-> a.media, caption |-> a.caption]

\* The shorthand "kind:media[;caption]" of a text whose media type is unset.
\* A text is cut into words so that ":" and ";" are words of their own.
InferMedia(a, t) ==
  LET command == SplitFirst(t, ":")
      payload == SplitRest(t, ":")
      known == Contains(t, ":") /\ Len(command) = 1 /\ command[1] \in MediaCommands
  IN IF known
     THEN [exc |-> None, text |-> <<>>, cleared |-> TRUE,
           media_type |-> command[1],
           media |-> PyStr(IF Contains(payload, ";") THEN SplitFirst(payload, ";")
                           ELSE payload),
           caption |-> IF Contains(payload, ";") THEN PyStr(SplitRest(payload, ";"))
                       ELSE a.caption]
     ELSE [exc |-> None, text |-> t, cleared |-> FALSE, media_type |-> "text",
           media |-> a.media, caption |-> a.caption]

Raised(exc, a) ==
  [exc |-> exc, text |-> <<>>, cleared |-> FALSE, media_type |-> a.media_type,
   media |-> a.media, caption |-> a.caption]

\* Answer.msg: the text to send, and the media fields the property sets on
\* the answer.  A payload that is no str cannot be searched for ":".
Msg(a, cfg, code) ==
  LET r == IF cfg.language_feature
           THEN ApplyLanguage(a, code, cfg.strict_mode)
           ELSE [exc |-> None, text |-> a.msg]
  IN IF r.exc # None THEN Raised(r.exc, a)
     ELSE IF a.media_type # None
     THEN [exc |-> None, text |-> r.text, cleared |-> a.msg_ty = "none",
           media_type |-> a.media_type, media |-> a.media, caption |-> a.caption]
     ELSE IF a.msg_ty # "str" THEN Raised("TypeError", a)
     ELSE InferMedia(a, r.text)

\* The answer object after its msg property ran.
AfterMsg(a, m) ==
  [a EXCEPT !.media_type = m.media_type, !.media = m.media, !.caption = m.caption,
            !.msg = IF m.cleared THEN <<>> ELSE a.msg,
            !.msg_ty = IF m.cleared THEN "none" ELSE a.msg_ty]

\* the pairing taking c[x*3:(x+1)*3], rows of three
PairsOfThree(items) ==
  [x \in 1..((Len(items) + 2) \div 3) |->
     PyList(SubSeq(items, 3 * x - 2, IF 3 * x <= Len(items) THEN 3 * x ELSE Len(items)))]

\* [y for y in c[x*2:(x+1)*2]] for x in range(ceil(len(c) / 2))
Pairs(items) ==
  [x \in 1..((Len(items) + 1) \div 2) |->
     PyList(SubSeq(items, 2 * x - 1, IF 2 * x <= Len(items) THEN 2 * x ELSE Len(items)))]

\* InlineKeyboardMarkup of InlineKeyboardButton(text=t, callback_data=t)
InlineMarkup(rows) ==
  [kind |-> "inline",
   rows |-> [i \in 1..Len(rows) |->
               [j \in 1..Len(rows[i].items) |->
                  [text |-> rows[i].items[j].s, callback_data |-> rows[i].items[j].s]]]]

\* ReplyKeyboardMarkup of KeyboardButton(text=t), one_time_keyboard=True
ReplyMarkup(rows) ==
  [kind |-> "reply", one_time_keyboard |-> TRUE,
   rows |-> [i \in 1..Len(rows) |->
               [j \in 1..Len(rows[i].items) |-> [text |-> rows[i].items[j].s]]]]

NoMarkup == [kind |-> "none"]

\* Answer._get_config: the reply_markup, and self.choices as the method
\* leaves it.  choices and keyboard are lists of str or lists of rows.
GetConfig(a) ==
  IF a.choices.ty # "none"
  THEN IF a.choices.items = <<>>
       THEN [exc |-> "IndexError", reply_markup |-> NoMarkup, choices |-> a.choices]
       ELSE LET rows == IF a.choices.items[1].ty = "str"
                        THEN Pairs(a.choices.items)
                        ELSE a.choices.items
            IN [exc |-> None, reply_markup |-> InlineMarkup(rows),
                choices |-> PyList(rows)]
  ELSE IF a.keyboard.ty # "none"
  THEN IF a.keyboard.items = <<>>
       THEN [exc |-> "IndexError", reply_markup |-> NoMarkup, choices |-> a.choices]
       ELSE IF a.keyboard.items[1].ty = "str"
       THEN \* the pairing reads len(self.choices), and self.choices is None
            [exc |-> "TypeError", reply_markup |-> NoMarkup, choices |-> a.choices]
       ELSE [exc |-> None, reply_markup |-> ReplyMarkup(a.keyboard.items),
             choices |-> a.choices]
  ELSE [exc |-> None, reply_markup |-> NoMarkup, choices |-> a.choices]

\* The media types whose _send branch opens self.media as a file.
OpensFile(media_type) == media_type \in {"voice", "audio", "photo", "video", "document"}

\* ------------------------------------------------------------------ inputs
\* What a handler or a continuation can return ...
A_hi_cb == Answer(K_hi, <<>>, "cb1")
A_bye == Answer(K_bye, <<>>, None)

HandlerResults ==
  { PyNone,
    PyStr(K_hi),
    PyList(<<A_hi_cb, A_bye>>),
    PyList(<<>>) }

\* Payloads with and without the media shorthand.
P_sticker == <<"sticker", ":", "abc123">>
P_photo == <<"photo", ":", "abc123", ";", "a cat">>
P_video == <<"video", ":", "v.mp4", ";", "one", ";", "two">>
P_audio == <<"audio", ":", "a", ":", "b">>
P_voice == <<"voice", ":">>
P_url == <<"http", ":", "//x", ";", "y">>
P_note == <<"note", ";", "photo", ":", "abc123">>
P_colon == <<":", "photo">>

B_A == PyStr(<<"A">>)
B_B == PyStr(<<"B">>)
B_C == PyStr(<<"C">>)
B_D == PyStr(<<"D">>)

\* What the handlers of SpecAnswer return.
AnswerResults ==
  { PyStr(K_hi), PyInt(5), PyStr(P_photo),
    PyList(<<PyStr(K_tmpl), PyStr(<<"bob">>)>>),
    PyList(<<PyInt(5), PyStr(<<"bob">>)>>),
    PyList(<<A_hi_cb, A_bye>>),
    Answer(P_sticker, <<>>, None), Answer(P_photo, <<>>, None),
    Answer(P_video, <<>>, None), Answer(P_audio, <<>>, None),
    Answer(P_voice, <<>>, None), Answer(P_url, <<>>, None),
    Answer(P_note, <<>>, None), Answer(P_colon, <<>>, None),
    [Answer(<<"document", ":", "f.pdf">>, <<>>, None) EXCEPT !.caption = PyStr(<<"given">>)],
    [Answer(P_photo, <<>>, None) EXCEPT !.media_type = "text"],
    WithChoices(Answer(K_hi, <<>>, None), PyList(<<B_A>>)),
    WithChoices(Answer(K_hi, <<>>, None), PyList(<<B_A, B_B>>)),
    WithChoices(Answer(K_hi, <<>>, None), PyList(<<B_A, B_B, B_C>>)),
    WithChoices(Answer(K_hi, <<>>, None), PyList(<<B_A, B_B, B_C, B_D>>)),
    WithChoices(Answer(K_hi, <<>>, None), PyList(<<PyList(<<B_A>>), PyList(<<B_B, B_C, B_D>>)>>)),
    WithChoices(Answer(K_hi, <<>>, None), PyList(<<>>)),
    WithKeyboard(Answer(K_hi, <<>>, None), PyList(<<B_A, B_B, B_C>>)),
    WithKeyboard(Answer(K_hi, <<>>, None), PyList(<<PyList(<<B_A, B_B>>), PyList(<<B_C>>)>>)),
    [A_bye EXCEPT !.delay = 2],
    PyList(<<A_hi_cb, [A_bye EXCEPT !.delay = 2]>>) }

\* open(self.media, "rb") of a media file that does not exist
FileExceptions == {[type |-> "FileNotFoundError", nargs |-> 2]}

\* ... or raise: the exception's type and the length of its args tuple.
HandlerExceptions ==
  { [type |-> "ValueError", nargs |-> 1],
    [type |-> "ValueError", nargs |-> 0],
    [type |-> "OSError", nargs |-> 2],
    [type |-> "OSError", nargs |-> 1] }

\* What the transport can raise from a send, an acknowledge or an edit.
TransportExceptions ==
  { [type |-> "TelegramError", nargs |-> 3],
    [type |-> "TimeoutError", nargs |-> 0] }

StickerEmojis == {T_x, T_hi}
QueryData == {"A"}

\* The [bot] and [query] sections of config.toml.
Configs ==
  [language_feature : BOOLEAN, strict_mode : BOOLEAN,
   error_reply : {PyNone, PyStr(K_err), PyStr(K_bye)},
   replace_query : BOOLEAN, extract_emojis : BOOLEAN]

\* -------------------------------------------------------------------- state
VARIABLES
  phase,            \* "startup" until Marvin.listen, then "listening"
  simple_routes,    \* _Session.simple_routes
  parse_routes,     \* _Session.parse_routes
  regex_routes,     \* _Session.regex_routes
  default_answer,   \* _Session.default_answer
  default_sticker_answer,
  exact_regs,       \* history: the handler last registered with exact kind, per pattern
  nregs,            \* history: registrations made
  config,           \* _config
  language_code,    \* self.user.language_code
  query_callback,   \* self.query_callback
  last_sent,        \* self.last_sent
  pc,               \* where the session's coroutine is suspended
  entry,            \* the entry point of the event in progress
  text,             \* msg['text'] of the event in progress
  func,             \* the callable about to be invoked
  answer,           \* the value the handler returned
  query,            \* the callback query in progress
  pending,          \* handle_answer: the answers not yet sent
  depth,            \* nesting of handle_error
  raised,           \* history: the entry point whose handler raised in the last event, or None
  escaped,          \* the exception that left the entry point, or None
  sent,             \* transport: the messages sent, in order
  acked,            \* transport: callback queries acknowledged
  edits,            \* transport: message edits
  invoked,          \* history: message ids whose continuation was invoked, in order
  nev,              \* events received
  left,             \* events still to be delivered
  nfail             \* transport failures so far

routing == <<phase, simple_routes, parse_routes, regex_routes, default_answer,
             default_sticker_answer, exact_regs, nregs>>
settings == <<config, language_code>>
session == <<query_callback, last_sent>>
control == <<pc, entry, text, func, answer, query, pending, depth, raised, escaped>>
transport == <<sent, acked, edits, nfail>>
history == <<invoked, nev, left>>
vars == <<routing, settings, session, control, transport, history>>

Empty == [p \in {} |-> None]

\* d.setdefault(k, v): the first binding of a key stays
PutKeepsFirst(d, k, v) == [x \in DOMAIN d \cup {k} |-> IF x \in DOMAIN d THEN d[x] ELSE v]

\* d[k] = v
Put(d, k, v) == [x \in DOMAIN d \cup {k} |-> IF x = k THEN v ELSE d[x]]

\* d.get(k) in place of d.pop(k): the entry stays
RemoveKeepsEntry(d, k) == d

\* d.pop(k)
Remove(d, k) == [x \in DOMAIN d \ {k} |-> d[x]]

NoQuery == [message_id |-> 0, data |-> ""]

\* The control part of the state as one record, and its assignment.
Cur ==
  [pc |-> pc, entry |-> entry, text |-> text, func |-> func, answer |-> answer,
   query |-> query, pending |-> pending, depth |-> depth, escaped |-> escaped]

Ctl(r) ==
  /\ pc' = r.pc
  /\ entry' = r.entry
  /\ text' = r.text
  /\ func' = r.func
  /\ answer' = r.answer
  /\ query' = r.query
  /\ pending' = r.pending
  /\ depth' = r.depth
  /\ escaped' = r.escaped

\* The event's coroutine returned: the session waits for the next event.
Done ==
  [pc |-> "Idle", entry |-> None, text |-> <<>>, func |-> None, answer |-> PyNone,
   query |-> NoQuery, pending |-> <<>>, depth |-> 0, escaped |-> None]

\* An exception left on_chat_message / on_callback_query: the delegate's
\* coroutine (created by create_open in Marvin._create_bot) ends with it.
Escape(exc) == [Done EXCEPT !.pc = "Closed", !.escaped = exc]

\* handle_text_message returned.  handle_sticker, after the text pipeline of
\* an extracted emoji, goes on to call the default sticker handler.
Finish ==
  IF entry = "sticker_text"
  THEN [Done EXCEPT !.pc = "StickerInvoking", !.entry = entry,
                    !.func = default_sticker_answer]
  ELSE Done

\* The except clauses of handle_text_message and prepare_answer read
\* e.args[1] of an OSError and e.args[0] of anything else.
ArgsIndexRaises(e) ==
  IF e.type = "OSError" THEN e.nargs < 2 ELSE e.nargs < 1

\* handle_error: with an error_reply configured, prepare_answer(Answer(reply))
\* which hands the one answer to handle_answer.
HandleError ==
  IF config.error_reply.ty = "none" THEN Finish
  ELSE IF depth >= RecursionLimit THEN Escape("RecursionError")
  ELSE [Cur EXCEPT !.pc = "Sending",
                   !.pending = <<Answer(config.error_reply.s, <<>>, None)>>,
                   !.depth = depth + 1]

\* prepare_answer wrapping answer[0] alone, without *answer[1:]
NormalizeDropsFormatArgs(v) ==
  IF v.ty \notin {"Answer", "list"}
  THEN <<Answer(Str(v), <<>>, None)>>
  ELSE IF v.ty = "list" /\ v.items[1].ty # "Answer"
  THEN <<Answer(Str(v.items[1]), <<>>, None)>>
  ELSE IF v.ty = "Answer" THEN <<v>>
  ELSE v.items

\* prepare_answer up to the call of handle_answer: the answers to send.
Normalize(v) ==
  IF v.ty \notin {"Answer", "list"}
  THEN <<Answer(Str(v), <<>>, None)>>
  ELSE IF v.ty = "list" /\ v.items[1].ty # "Answer"
  THEN <<Answer(Str(v.items[1]), Tail(v.items), None)>>
  ELSE IF v.ty = "Answer" THEN <<v>>
  ELSE v.items

\* prepare_answer without its "if answer is None: return"
PrepareAnswerWithoutNoneTest(v) ==
  IF v.ty = "list" /\ v.items = <<>>
  THEN HandleError
  ELSE [Cur EXCEPT !.pc = "Sending", !.pending = Normalize(v)]

\* prepare_answer(v)
PrepareAnswer(v) ==
  IF v.ty = "none" THEN Finish
  ELSE IF v.ty = "list" /\ v.items = <<>>
  THEN HandleError      \* answer[0] raises IndexError, caught at "except Exception"
  ELSE [Cur EXCEPT !.pc = "Sending", !.pending = Normalize(v)]

\* ------------------------------------------------------------- registration
\* Marvin.answer(message, mode)(f)
Register(message, mode, f) ==
  /\ phase = "startup"
  /\ nregs < MaxRegs
  /\ regex_routes' = IF mode = "REGEX" THEN Put(regex_routes, message, f)
                     ELSE regex_routes
  /\ IF mode = "PARSE"
     THEN parse_routes' = Put(parse_routes, message, f) /\ UNCHANGED simple_routes
     ELSE simple_routes' = Put(simple_routes, message, f) /\ UNCHANGED parse_routes
  /\ exact_regs' = IF mode = "DEFAULT" THEN Put(exact_regs, message, f) ELSE exact_regs
  /\ nregs' = nregs + 1
  /\ UNCHANGED <<phase, default_answer, default_sticker_answer>>
  /\ UNCHANGED <<settings, session, control, transport, history>>

\* Marvin.default_answer(f)
RegisterDefault(f) ==
  /\ phase = "startup"
  /\ default_answer = BuiltinDefault
  /\ default_answer' = f
  /\ UNCHANGED <<phase, simple_routes, parse_routes, regex_routes,
                 default_sticker_answer, exact_regs, nregs>>
  /\ UNCHANGED <<settings, session, control, transport, history>>

\* Marvin.listen
Listen ==
  /\ phase = "startup"
  /\ phase' = "listening"
  /\ UNCHANGED <<simple_routes, parse_routes, regex_routes, default_answer,
                 default_sticker_answer, exact_regs, nregs>>
  /\ UNCHANGED <<settings, session, control, transport, history>>

\* ------------------------------------------------------------------ routing
\* The if/elif chain of handle_text_message: the callables the text can
\* resolve to (a ParsingDict or RegExDict with several matching patterns
\* yields one of them).
Resolve(t) ==
  IF t \in DOMAIN simple_routes THEN {simple_routes[t]}
  ELSE IF \E p \in DOMAIN parse_routes : ParseMatches(p, t)
  THEN {parse_routes[p] : p \in {q \in DOMAIN parse_routes : ParseMatches(q, t)}}
  ELSE IF \E p \in DOMAIN regex_routes : RegexMatches(p, t)
  THEN {regex_routes[p] : p \in {q \in DOMAIN regex_routes : RegexMatches(q, t)}}
  ELSE {default_answer}

\* a delegate that starts the next event's coroutine while the previous one
\* is suspended in a send
CanReceiveWhileSending == phase = "listening" /\ pc \in {"Idle", "Sending"} /\ left > 0

\* The delegate's loop awaits on_message before it takes the next event of
\* the conversation.
CanReceive == phase = "listening" /\ pc = "Idle" /\ left > 0

\* on_chat_message with 'text' in msg: handle_text_message up to the call
\* of the handler.
ReceiveText(t) ==
  /\ CanReceive
  /\ \E f \in Resolve(t) :
       Ctl([Cur EXCEPT !.pc = "Invoking", !.entry = "text", !.text = t, !.func = f])
  /\ raised' = None
  /\ nev' = nev + 1 /\ left' = left - 1
  /\ UNCHANGED <<routing, settings, session, transport, invoked>>

\* The handler returns v.
HandlerReturns(v) ==
  /\ pc = "Invoking"
  /\ func = BuiltinDefault => v.ty = "none"
  /\ Ctl([Cur EXCEPT !.pc = "Normalizing", !.answer = v])
  /\ UNCHANGED <<raised, routing, settings, session, transport, history>>

\* The handler raises e: the except clause of handle_text_message.
HandlerRaises(e) ==
  /\ pc = "Invoking"
  /\ func # BuiltinDefault
  /\ Ctl(IF ArgsIndexRaises(e) THEN Escape("IndexError") ELSE HandleError)
  /\ raised' = entry
  /\ UNCHANGED <<routing, settings, session, transport, history>>

\* prepare_answer(answer, log) up to its first send.
NormalizeStep ==
  /\ pc = "Normalizing"
  /\ Ctl(PrepareAnswer(answer))
  /\ UNCHANGED <<raised, routing, settings, session, transport, history>>

\* ------------------------------------------------------------------ sending
NoSent == [message_id |-> 0]

\* a handle_answer that catches the exception of one send and goes on with
\* the next answer
SendFailureSkipsAnswer(e) ==
  IF Tail(pending) = <<>> THEN HandleError
  ELSE [Cur EXCEPT !.pending = Tail(pending)]

\* The exception handlers of prepare_answer: TelegramError and
\* FileNotFoundError have clauses of their own, "except Exception" indexes
\* e.args.
SendFailure(e) ==
  IF e.type \notin {"TelegramError", "FileNotFoundError"} /\ ArgsIndexRaises(e)
  THEN Escape("IndexError")
  ELSE HandleError

\* handle_answer has sent one answer: the next one, or the loop is over.
AfterSend ==
  IF Tail(pending) = <<>> THEN Finish
  ELSE [Cur EXCEPT !.pending = Tail(pending)]

\* What answer._send hands to the transport for the media type: sendMessage
\* takes the text, sendSticker the media, the other media calls the opened
\* media and the caption; all take the reply_markup.
Sent(id, m, g, ev) ==
  [message_id |-> id, ev |-> ev, media_type |-> m.media_type,
   text |-> IF m.media_type = "text" THEN m.text ELSE <<>>,
   media |-> IF m.media_type = "text" THEN PyNone ELSE m.media,
   caption |-> IF OpensFile(m.media_type) THEN m.caption ELSE PyNone,
   reply_markup |-> g.reply_markup]

\* handle_answer assigning self.last_sent only inside "if answer.callback"
SendOkRecordsCallbackAnswersOnly ==
  /\ pc = "Sending"
  /\ LET a == Head(pending)
         m == Msg(a, config, language_code)
         g == GetConfig(a)
         id == Len(sent) + 1
     IN /\ m.exc = None /\ g.exc = None
        /\ sent' = Append(sent, Sent(id, m, g, nev))
        /\ last_sent' = IF a.callback # None
                        THEN [answer |-> [AfterMsg(a, m) EXCEPT !.choices = g.choices],
                              message_id |-> id]
                        ELSE last_sent
        /\ query_callback' = IF a.callback # None
                             THEN Put(query_callback, id, a.callback)
                             ELSE query_callback
  /\ Ctl(AfterSend)
  /\ UNCHANGED <<raised, routing, settings, acked, edits, nfail, history>>

\* handle_answer, one iteration whose answer._send returns: the transport
\* numbers the message, the session records it and its continuation.
SendOk ==
  /\ pc = "Sending"
  /\ LET a == Head(pending)
         m == Msg(a, config, language_code)
         g == GetConfig(a)
         id == Len(sent) + 1
     IN /\ m.exc = None /\ g.exc = None
        /\ sent' = Append(sent, Sent(id, m, g, nev))
        /\ last_sent' = [answer |-> [AfterMsg(a, m) EXCEPT !.choices = g.choices],
                         message_id |-> id]
        /\ query_callback' = IF a.callback # None
                             THEN Put(query_callback, id, a.callback)
                             ELSE query_callback
  /\ Ctl(AfterSend)
  /\ UNCHANGED <<raised, routing, settings, acked, edits, nfail, history>>

\* answer.msg raises (a strict localization miss, a placeholder without
\* argument, a payload that is no str) or answer._get_config raises (an empty
\* list, a flat keyboard): caught by "except Exception" of prepare_answer.
SendResolveRaises ==
  /\ pc = "Sending"
  /\ \/ Msg(Head(pending), config, language_code).exc # None
     \/ GetConfig(Head(pending)).exc # None
  /\ Ctl(HandleError)
  /\ UNCHANGED <<raised, routing, settings, session, transport, history>>

\* The transport raises e from the send, or open(self.media, "rb") raises
\* FileNotFoundError.
SendRaises(e) ==
  /\ pc = "Sending"
  /\ Msg(Head(pending), config, language_code).exc = None
  /\ GetConfig(Head(pending)).exc = None
  /\ e.type = "FileNotFoundError" =>
       OpensFile(Msg(Head(pending), config, language_code).media_type)
  /\ nfail < MaxFail
  /\ nfail' = nfail + 1
  /\ Ctl(SendFailure(e))
  /\ UNCHANGED <<raised, routing, settings, session, sent, acked, edits, history>>

\* ----------------------------------------------------------------- stickers
\* Marvin.default_sticker_answer(f)
RegisterDefaultSticker(f) ==
  /\ phase = "startup"
  /\ default_sticker_answer = BuiltinDefault
  /\ default_sticker_answer' = f
  /\ UNCHANGED <<phase, simple_routes, parse_routes, regex_routes,
                 default_answer, exact_regs, nregs>>
  /\ UNCHANGED <<settings, session, control, transport, history>>

\* on_chat_message with 'sticker' in msg: handle_sticker up to its first await.
ReceiveSticker(emoji) ==
  /\ CanReceive
  /\ IF config.extract_emojis
     THEN \E f \in Resolve(emoji) :
            Ctl([Cur EXCEPT !.pc = "Invoking", !.entry = "sticker_text",
                            !.text = emoji, !.func = f])
     ELSE Ctl([Cur EXCEPT !.pc = "StickerInvoking", !.entry = "sticker",
                          !.func = default_sticker_answer])
  /\ raised' = None
  /\ nev' = nev + 1 /\ left' = left - 1
  /\ UNCHANGED <<routing, settings, session, transport, invoked>>

\* The default sticker handler returns v; handle_sticker calls
\* self.prepare_answer(answer) without awaiting it, so its body never runs.
StickerReturns(v) ==
  /\ pc = "StickerInvoking"
  /\ func = BuiltinDefault => v.ty = "none"
  /\ Ctl(Done)
  /\ UNCHANGED <<raised, routing, settings, session, transport, history>>

\* The default sticker handler raises: handle_sticker has no try.
StickerRaises(e) ==
  /\ pc = "StickerInvoking"
  /\ func # BuiltinDefault
  /\ Ctl(Escape(e.type))
  /\ raised' = entry
  /\ UNCHANGED <<routing, settings, session, transport, history>>

\* ---------------------------------------------------------- callback queries
\* on_callback_query up to its first await: the continuation is popped and,
\* if there is one, called with the query's data.
ReceiveCallback(m, d) ==
  /\ CanReceive
  /\ m \in 0..Len(sent)
  /\ LET f == IF m \in DOMAIN query_callback THEN query_callback[m] ELSE None
     IN /\ query_callback' = Remove(query_callback, m)
        /\ Ctl([Cur EXCEPT !.pc = IF f # None THEN "CbInvoking" ELSE "CbAck",
                           !.entry = "callback", !.func = f,
                           !.query = [message_id |-> m, data |-> d]])
        /\ invoked' = IF f # None THEN Append(invoked, m) ELSE invoked
  /\ raised' = None
  /\ nev' = nev + 1 /\ left' = left - 1
  /\ UNCHANGED <<routing, settings, last_sent, transport>>

\* The continuation returns v.
CallbackReturns(v) ==
  /\ pc = "CbInvoking"
  /\ Ctl([Cur EXCEPT !.pc = "CbAck", !.answer = v])
  /\ UNCHANGED <<raised, routing, settings, session, transport, history>>

\* The continuation raises: on_callback_query has no try.
CallbackRaises(e) ==
  /\ pc = "CbInvoking"
  /\ Ctl(Escape(e.type))
  /\ raised' = entry
  /\ UNCHANGED <<routing, settings, session, transport, history>>

\* "if answer is not None: await self.prepare_answer(answer, log='')"
ProcessAnswer ==
  IF answer.ty = "none" THEN Done ELSE PrepareAnswer(answer)

\* bot.answerCallbackQuery(query['id']) returns.
AckOk ==
  /\ pc = "CbAck"
  /\ acked' = acked + 1
  /\ Ctl(IF config.replace_query THEN [Cur EXCEPT !.pc = "CbEdit"] ELSE ProcessAnswer)
  /\ UNCHANGED <<raised, routing, settings, session, sent, edits, nfail, history>>

\* bot.answerCallbackQuery raises.
AckRaises(e) ==
  /\ pc = "CbAck"
  /\ nfail < MaxFail
  /\ nfail' = nfail + 1
  /\ Ctl(Escape(e.type))
  /\ UNCHANGED <<raised, routing, settings, session, sent, acked, edits, history>>

\* The text of the edit: last_sent[0].msg followed by the chosen option.
EditText == Msg(last_sent.answer, config, language_code).text \o <<query.data>>

\* bot.editMessageText((user.id, message_id), text=...) returns.
EditOk ==
  /\ pc = "CbEdit"
  /\ last_sent # NoSent
  /\ edits' = Append(edits, [message_id |-> query.message_id, text |-> EditText])
  /\ Ctl(ProcessAnswer)
  /\ UNCHANGED <<raised, routing, settings, session, sent, acked, nfail, history>>

\* self.last_sent is None: last_sent[0] raises TypeError.
EditNoLastSent ==
  /\ pc = "CbEdit"
  /\ last_sent = NoSent
  /\ Ctl(Escape("TypeError"))
  /\ UNCHANGED <<raised, routing, settings, session, transport, history>>

\* bot.editMessageText raises.
EditRaises(e) ==
  /\ pc = "CbEdit"
  /\ last_sent # NoSent
  /\ nfail < MaxFail
  /\ nfail' = nfail + 1
  /\ Ctl(Escape(e.type))
  /\ UNCHANGED <<raised, routing, settings, session, sent, acked, edits, history>>

\* ------------------------------------------------------------ specifications
\* _Session.__init__ for a conversation, before its first event.
InitSession ==
  /\ query_callback = Empty
  /\ last_sent = NoSent
  /\ pc = "Idle" /\ entry = None /\ text = <<>> /\ func = None /\ answer = PyNone
  /\ query = NoQuery /\ pending = <<>> /\ depth = 0 /\ escaped = None
  /\ raised = None
  /\ sent = <<>> /\ acked = 0 /\ edits = <<>> /\ nfail = 0
  /\ invoked = <<>> /\ nev = 0

\* The class attributes before any decorator ran.
InitRoutes ==
  /\ phase = "startup"
  /\ simple_routes = Empty /\ parse_routes = Empty /\ regex_routes = Empty
  /\ default_answer = BuiltinDefault
  /\ default_sticker_answer = BuiltinDefault
  /\ exact_regs = Empty /\ nregs = 0

\* The class attributes of a bot whose module ran
\*   @marv.answer("hi"), @marv.answer("h{}", Mode.PARSE),
\*   @marv.default_answer, @marv.default_sticker_answer
\* and then marv.listen().
InitListening ==
  /\ phase = "listening"
  /\ simple_routes = Put(Empty, T_hi, "h1")
  /\ parse_routes = Put(Empty, T_hole, "h2")
  /\ regex_routes = Empty
  /\ default_answer = "h2"
  /\ default_sticker_answer = "h1"
  /\ exact_regs = Put(Empty, T_hi, "h1") /\ nregs = 2

\* Spec: one session of a listening bot under every configuration in which
\* strict_mode can matter (it is read only when language_feature is set).
SessionConfigs == {c \in Configs : c.strict_mode => c.language_feature}
SessionTexts == {T_hi, T_x}

Init ==
  /\ InitListening
  /\ InitSession
  /\ config \in SessionConfigs
  /\ language_code = L_de
  /\ left = MaxEvents

Next ==
  \/ \E t \in SessionTexts : ReceiveText(t)
  \/ \E v \in HandlerResults : HandlerReturns(v)
  \/ \E e \in HandlerExceptions : HandlerRaises(e)
  \/ NormalizeStep
  \/ SendOk
  \/ SendResolveRaises
  \/ \E e \in TransportExceptions : SendRaises(e)
  \/ \E emoji \in StickerEmojis : ReceiveSticker(emoji)
  \/ \E v \in HandlerResults : StickerReturns(v)
  \/ \E e \in HandlerExceptions : StickerRaises(e)
  \/ \E m \in 0..(3 * MaxEvents), d \in QueryData : ReceiveCallback(m, d)
  \/ \E v \in HandlerResults : CallbackReturns(v)
  \/ \E e \in HandlerExceptions : CallbackRaises(e)
  \/ AckOk
  \/ \E e \in TransportExceptions : AckRaises(e)
  \/ EditOk
  \/ EditNoLastSent
  \/ \E e \in TransportExceptions : EditRaises(e)

Spec == Init /\ [][Next]_vars

\* SpecRoute: the registrations of a module in any order, then one text
\* event; localization off, no error_reply.
RouteConfig ==
  [language_feature |-> FALSE, strict_mode |-> FALSE, error_reply |-> PyNone,
   replace_query |-> TRUE, extract_emojis |-> FALSE]
RouteResults == {PyNone, PyStr(K_hi)}

InitRoute ==
  /\ InitRoutes
  /\ InitSession
  /\ config = RouteConfig
  /\ language_code = L_de
  /\ left = 1

NextRoute ==
  \/ \E message \in Patterns, mode \in Mode, f \in Handlers : Register(message, mode, f)
  \/ \E f \in Handlers : RegisterDefault(f)
  \/ Listen
  \/ \E t \in Texts : ReceiveText(t)
  \/ \E v \in RouteResults : HandlerReturns(v)
  \/ \E e \in HandlerExceptions : HandlerRaises(e)
  \/ NormalizeStep
  \/ SendOk
  \/ \E e \in TransportExceptions : SendRaises(e)

SpecRoute == InitRoute /\ [][NextRoute]_vars

\* SpecLang: localization on, every language code, strict and lenient; the
\* handlers return keys present in the user's table, only in the default
\* table, and in no table.
LangConfigs ==
  {c \in Configs : c.language_feature /\ c.replace_query /\ ~c.extract_emojis
                   /\ c.error_reply \in {PyNone, PyStr(K_err)}}
LangResults ==
  { PyStr(K_hi), PyStr(K_bye), PyStr(K_err),
    PyList(<<PyStr(K_tmpl), PyStr(<<"bob">>)>>),
    PyList(<<PyStr(K_tmpl)>>) }

InitLang ==
  /\ InitListening
  /\ InitSession
  /\ config \in LangConfigs
  /\ language_code \in LanguageCodes
  /\ left = 2

NextLang ==
  \/ \E t \in SessionTexts : ReceiveText(t)
  \/ \E v \in LangResults : HandlerReturns(v)
  \/ \E e \in HandlerExceptions : HandlerRaises(e)
  \/ NormalizeStep
  \/ SendOk
  \/ SendResolveRaises
  \/ \E e \in TransportExceptions : SendRaises(e)

SpecLang == InitLang /\ [][NextLang]_vars

\* SpecAnswer: the answers a handler can compose (bare values, lists, media
\* shorthands, choices, keyboards), localization off or lenient.
AnswerConfigs ==
  {c \in Configs : ~c.strict_mode /\ c.replace_query /\ ~c.extract_emojis
                   /\ c.error_reply \in {PyNone, PyStr(K_err)}}

InitAnswer ==
  /\ InitListening
  /\ InitSession
  /\ config \in AnswerConfigs
  /\ language_code = L_de
  /\ left = 2

NextAnswer ==
  \/ \E t \in SessionTexts : ReceiveText(t)
  \/ \E v \in AnswerResults : HandlerReturns(v)
  \/ NormalizeStep
  \/ SendOk
  \/ SendResolveRaises
  \/ \E e \in TransportExceptions \cup FileExceptions : SendRaises(e)

SpecAnswer == InitAnswer /\ [][NextAnswer]_vars

\* ------------------------------------------------------------------ claims
\* The messages sent so far by the event in progress.
EventSends == {i \in 1..Len(sent) : sent[i].ev = nev}

ErrorReplyText == Msg(Answer(config.error_reply.s, <<>>, None), config, language_code).text

\* C1 (as claimed; refuted by Register under SpecRoute): a text equal to a
\* pattern registered with exact kind invokes the handler of that exact
\* registration whatever parse or regex registrations exist, and a text equal
\* to no exact pattern that a parse pattern matches invokes a parse handler.
C1_TierPrecedence ==
  pc = "Invoking" =>
    /\ text \in DOMAIN exact_regs => func = exact_regs[text]
    /\ (text \notin DOMAIN exact_regs
        /\ \E p \in DOMAIN parse_routes : ParseMatches(p, text))
       => \E p \in DOMAIN parse_routes : ParseMatches(p, text) /\ func = parse_routes[p]

\* C2 (as claimed; refuted by Register under SpecRoute): a text that equals
\* no exact-kind pattern and matches no parse-kind or regex-kind pattern
\* invokes the default handler.
C2_MissInvokesDefault ==
  (/\ pc = "Invoking"
   /\ text \notin DOMAIN exact_regs
   /\ \A p \in DOMAIN parse_routes : ~ParseMatches(p, text)
   /\ \A p \in DOMAIN regex_routes : ~RegexMatches(p, text))
  => func = default_answer

\* C3 (as claimed; refuted under Spec): after the handler of a text event
\* raised, the event has sent nothing when no error_reply is configured and
\* at most the error_reply otherwise, and the session is still open for the
\* next event.
C3_HandlerFailureRecovered ==
  raised = "text" =>
    /\ pc # "Closed"
    /\ Cardinality(EventSends) <= (IF config.error_reply.ty = "none" THEN 0 ELSE 1)
    /\ \A i \in EventSends : sent[i].text = ErrorReplyText

\* C4 (as claimed; refuted under Spec): unless localization is strict, no
\* exception leaves the session's event-handling entry points.
C4_FailuresContained ==
  ~(config.language_feature /\ config.strict_mode) => escaped = None

\* C5: no message id has its continuation invoked twice, and a message id
\* whose continuation was invoked has no entry in query_callback any more.
C5_ContinuationAtMostOnce ==
  /\ \A i, j \in 1..Len(invoked) : i # j => invoked[i] # invoked[j]
  /\ \A i \in 1..Len(invoked) : invoked[i] \notin DOMAIN query_callback

\* C5 witness: a second callback query for a message whose continuation was
\* already invoked finds nothing to invoke.
C5_Witness ==
  /\ pc = "CbAck"
  /\ func = None
  /\ \E i \in 1..Len(invoked) : invoked[i] = query.message_id

\* C6: when the handler of an event is about to be invoked, no answer of an
\* earlier event is still waiting to be sent and every message sent so far
\* was sent by an earlier event.
C6_NoInterleaving ==
  pc = "Invoking" =>
    /\ pending = <<>>
    /\ \A i \in 1..Len(sent) : sent[i].ev < nev

\* C6 witness: the second text event is routed after the first text event
\* sent both answers of its batch.
C6_Witness ==
  /\ pc = "Invoking" /\ entry = "text" /\ nev = 2
  /\ ~config.extract_emojis
  /\ Len(sent) = 2 /\ sent[1].ev = 1 /\ sent[2].ev = 1

\* C7 (as claimed; refuted under Spec): in strict mode a localization miss
\* while sending leaves the pipeline as an error instead of entering the
\* error-reply path.
C7_StrictMissPropagates ==
  [][(/\ pc = "Sending"
      /\ config.language_feature /\ config.strict_mode
      /\ Msg(Head(pending), config, language_code).exc = "KeyError")
     => (pc' = "Closed" /\ escaped' = "KeyError")]_vars

\* The primary subtag of an IETF language tag, lower-cased.
PrimarySubtag(code) == Lower(SplitFirst(SplitFirst(code, "_"), "-"))

LastSentText == sent[last_sent.message_id].text

\* C8 (as claimed; refuted under SpecLang): the key hi resolves to Hallo for
\* every language code whose primary subtag is de in any case, de-DE
\* included, and to Hi for the others.
C8_PrimarySubtagLookup ==
  (last_sent # NoSent /\ last_sent.answer.msg = K_hi) =>
    LastSentText = IF PrimarySubtag(language_code) = L_de THEN <<"Hallo">> ELSE <<"Hi">>

\* C8 (amended): the language code is cut at its first underscore and
\* lower-cased: de, DE and de_DE resolve hi to Hallo, fr and the unsplit
\* de-DE resolve hi to Hi, and a key the de table lacks resolves through the
\* default table.
C8_UnderscoreSubtagLookup ==
  /\ (last_sent # NoSent /\ last_sent.answer.msg = K_hi) =>
       LastSentText = IF language_code \in {L_de, L_DE, L_de_DE}
                      THEN <<"Hallo">> ELSE <<"Hi">>
  /\ (last_sent # NoSent /\ last_sent.answer.msg = K_err) => LastSentText = <<"Sorry">>

\* C8 witness: a requester with de_DE was sent Hallo for hi.
C8_Witness ==
  /\ last_sent # NoSent
  /\ language_code = L_de_DE
  /\ last_sent.answer.msg = K_hi
  /\ LastSentText = <<"Hallo">>

\* C9: in lenient mode, sending an answer whose key is in no table either
\* sends the key itself as the text or fails in the transport; resolving it
\* raises nothing.
C9_LenientMissSendsKey ==
  [][(/\ pc = "Sending"
      /\ ~config.strict_mode
      /\ Head(pending).msg = K_bye)
     => \/ nfail' = nfail + 1
        \/ /\ Len(sent') = Len(sent) + 1
           /\ sent'[Len(sent')].text = K_bye
           /\ last_sent'.message_id = Len(sent')]_vars

\* C9 witness: the raw key bye was sent in lenient mode.
C9_Witness ==
  /\ last_sent # NoSent
  /\ ~config.strict_mode
  /\ last_sent.answer.msg = K_bye
  /\ LastSentText = K_bye

\* C10: when the handler of a text event returned None, the event has sent
\* nothing, and its pipeline ends in the next step with the sent messages,
\* last_sent and query_callback unchanged.
C10_NoneSendsNothing ==
  /\ [](pc = "Normalizing" => EventSends = {})
  /\ [][(pc = "Normalizing" /\ answer.ty = "none")
        => /\ sent' = sent
           /\ last_sent' = last_sent
           /\ query_callback' = query_callback
           /\ pending' = <<>>
           /\ pc' \in {"Idle", "StickerInvoking"}]_vars

\* C10 witness: a handler returned None in a session that has a last_sent
\* and a pending continuation.
C10_Witness ==
  /\ pc = "Normalizing" /\ answer.ty = "none"
  /\ last_sent # NoSent
  /\ DOMAIN query_callback # {}

\* C15: registering pattern p with exact kind and handler f binds p to f in
\* the exact table whatever p was bound to before, adds no entry but p's and
\* changes no other entry; registering what the table already holds leaves
\* every table as it was; and a text that is a key of the exact table invokes
\* the handler the table holds for it.
C15_ReRegisterReplaces ==
  [][/\ \A p \in Patterns, f \in Handlers :
          Register(p, "DEFAULT", f)
          => /\ DOMAIN simple_routes' = DOMAIN simple_routes \cup {p}
             /\ simple_routes'[p] = f
             /\ \A q \in DOMAIN simple_routes \ {p} : simple_routes'[q] = simple_routes[q]
             /\ (p \in DOMAIN simple_routes /\ simple_routes[p] = f)
                => <<simple_routes', parse_routes', regex_routes'>>
                     = <<simple_routes, parse_routes, regex_routes>>
     /\ (pc' = "Invoking" /\ text' \in DOMAIN simple_routes')
        => func' = simple_routes'[text']]_vars

\* C15 witness: after two exact registrations of the pattern hi its single
\* entry is bound to h2, and the text hi has invoked h2.
C15_Witness ==
  /\ nregs = 2
  /\ DOMAIN simple_routes = {T_hi} /\ simple_routes[T_hi] = "h2"
  /\ DOMAIN parse_routes = {} /\ DOMAIN regex_routes = {}
  /\ pc = "Invoking" /\ text = T_hi /\ func = "h2"

\* C16 (as claimed; refuted under Spec): the pipeline of an event is never
\* cut off on its way back to Idle: no step taken while a handler is being
\* invoked or an answer is being normalized or sent closes the session.
C16_PipelineReturnsToIdle ==
  [][(pc \in {"Invoking", "Normalizing", "Sending"}) => pc' # "Closed"]_vars

\* C17 (as claimed; refuted under Spec): every callback query is acknowledged
\* once: the call of its continuation is followed by the acknowledgement
\* whether the continuation returns or raises, the acknowledgement is left
\* only by acknowledging (unless the transport fails), and an acknowledgement
\* counts one and is not repeated.
C17_AcknowledgedOnce ==
  [][/\ pc = "CbInvoking" => pc' = "CbAck"
     /\ (pc = "CbAck" /\ nfail' = nfail) => (acked' = acked + 1 /\ pc' # "CbAck")
     /\ acked' # acked => pc = "CbAck"]_vars

\* C18 (as claimed; refuted under Spec): while a callback query that found
\* no continuation is processed, and the transport does not fail, no step
\* raises, sends a message, invokes a continuation or changes query_callback
\* or last_sent.
C18_CallbackMissIsSilent ==
  [][(entry = "callback" /\ func = None /\ nfail' = nfail)
     => /\ pc' # "Closed"
        /\ sent' = sent
        /\ invoked' = invoked
        /\ query_callback' = query_callback
        /\ last_sent' = last_sent]_vars

\* C19 (as claimed; refuted under Spec): with extract_emojis off a sticker
\* event calls the default sticker handler, and when that handler returns a
\* value other than None the value goes to prepare_answer as a text handler's
\* does: the answers Normalize gives are the ones waiting to be sent.
C19_StickerAnswerSent ==
  [][/\ (entry' = "sticker" /\ ~config.extract_emojis /\ pc # pc')
        => (pc = "Idle" => pc' = "StickerInvoking" /\ func' = default_sticker_answer)
     /\ \A v \in HandlerResults :
          (entry = "sticker" /\ v.ty # "none" /\ v # PyList(<<>>) /\ StickerReturns(v))
          => (pc' = "Sending" /\ pending' = Normalize(v))]_vars

\* C20 (as claimed; refuted under Spec): with extract_emojis on, the event of
\* a sticker is the text event of its emoji: the handler invoked is one the
\* emoji resolves to, and the default sticker handler is not called.
C20_ExtractedStickerIsText ==
  entry = "sticker_text" =>
    /\ pc = "Invoking" => func \in Resolve(text)
    /\ pc # "StickerInvoking"

\* What each answer of a sequence resolves to at its send: the call handed to
\* the transport, or the exception raised before it.
Sends(answers) ==
  [i \in 1..Len(answers) |->
     LET m == Msg(answers[i], config, language_code)
         g == GetConfig(answers[i])
     IN IF m.exc # None THEN [exc |-> m.exc]
        ELSE IF g.exc # None THEN [exc |-> g.exc]
        ELSE Sent(0, m, g, 0)]

\* The explicit answers the claim names for a handler's return value v, the
\* payload taken as returned ...
ExplicitAnswers(v) ==
  IF v.ty = "Answer" THEN <<v>>
  ELSE IF v.ty # "list" THEN <<AnswerOf(v, <<>>)>>
  ELSE IF v.items[1].ty # "Answer" THEN <<AnswerOf(v.items[1], Tail(v.items))>>
  ELSE v.items

\* ... and with the payload converted to its string form.
ExplicitStrAnswers(v) ==
  IF v.ty = "Answer" THEN <<v>>
  ELSE IF v.ty # "list" THEN <<AnswerOf(PyStr(Str(v)), <<>>)>>
  ELSE IF v.items[1].ty # "Answer"
  THEN <<AnswerOf(PyStr(Str(v.items[1])), Tail(v.items))>>
  ELSE v.items

\* C11 (as claimed; refuted under SpecAnswer): the answers waiting to be sent
\* after normalizing a handler's return value v resolve to the same sends as
\* Answer(v) for a bare v, as Answer(p, a1, ..., an) for a list [p, a1, ..., an]
\* whose p is no Answer, and are the list itself for a list of Answer.
C11_NormalizeIsExplicit ==
  [][(pc = "Normalizing" /\ pc' = "Sending" /\ depth' = depth)
     => Sends(pending') = Sends(ExplicitAnswers(answer))]_vars

\* C11 (amended): the same with the payload converted to its string form:
\* Answer(str(v)) and Answer(str(p), a1, ..., an).
C11_NormalizeIsExplicitStr ==
  [][(pc = "Normalizing" /\ pc' = "Sending" /\ depth' = depth)
     => /\ Sends(pending') = Sends(ExplicitStrAnswers(answer))
        /\ pending' = ExplicitStrAnswers(answer)]_vars

\* C11 witness: the list [yo {}, bob] was normalized into the one answer
\* that, localized, sends "Yo bob".
C11_Witness ==
  /\ pc = "Sending"
  /\ answer = PyList(<<PyStr(K_tmpl), PyStr(<<"bob">>)>>)
  /\ Len(pending) = 1
  /\ Sends(pending)[1].text = <<"Yo", "bob">>

\* The position of the first w in s, Len(s) + 1 when there is none.
FirstIndex(s, w) ==
  IF \E i \in 1..Len(s) : s[i] = w
  THEN CHOOSE i \in 1..Len(s) : s[i] = w /\ \A j \in 1..(i - 1) : s[j] # w
  ELSE Len(s) + 1

\* The payload of answer a as its msg property inspects it: localized when
\* localization is on.
Payload(a) ==
  IF config.language_feature THEN ApplyLanguage(a, language_code, config.strict_mode).text
  ELSE a.msg

Flat(c) == c.ty = "list" /\ c.items # <<>> /\ c.items[1].ty = "str"

\* The rows of width two of n labels: row i holds labels 2i-1 and 2i (counted
\* from 1), the last row one label when n is odd.  Each cell is made by Cell.
RowsOfTwo(labels, Cell(_)) ==
  [i \in 1..((Len(labels) + 1) \div 2) |->
     IF 2 * i <= Len(labels)
     THEN <<Cell(labels[2 * i - 1].s), Cell(labels[2 * i].s)>>
     ELSE <<Cell(labels[2 * i - 1].s)>>]

ReplyCell(label) == [text |-> label]
InlineCell(label) == [text |-> label, callback_data |-> label]

\* C13 (as claimed; refuted under SpecAnswer): an answer about to be sent
\* whose keyboard is a flat list of labels (and that has no choices) resolves
\* without an exception to a one-time reply keyboard of rows of width two in
\* the given order.
C13_FlatKeyboardPaired ==
  (pc = "Sending" /\ Flat(Head(pending).keyboard) /\ Head(pending).choices.ty = "none")
  => LET g == GetConfig(Head(pending))
     IN /\ g.exc = None
        /\ g.reply_markup.kind = "reply"
        /\ g.reply_markup.one_time_keyboard
        /\ g.reply_markup.rows = RowsOfTwo(Head(pending).keyboard.items, ReplyCell)

\* C14: when an answer with choices has been sent, the transport got an
\* inline keyboard whose buttons carry their label as callback data: for a
\* flat list of n >= 1 labels ceil(n/2) rows of width two in the given order,
\* for a list of rows these rows unchanged; and an answer with n >= 1 flat
\* choices about to be sent resolves its keyboard without an exception.
C14_FlatChoicesPaired ==
  [][/\ (pc = "Sending" /\ Len(sent') = Len(sent) + 1 /\ Head(pending).choices.ty = "list")
        => LET c == Head(pending).choices.items
               k == sent'[Len(sent')].reply_markup
           IN /\ k.kind = "inline"
              /\ k.rows = IF Flat(Head(pending).choices)
                          THEN RowsOfTwo(c, InlineCell)
                          ELSE [i \in 1..Len(c) |->
                                  [j \in 1..Len(c[i].items) |-> InlineCell(c[i].items[j].s)]]
     /\ (pc' = "Sending" /\ Flat(Head(pending').choices))
        => GetConfig(Head(pending')).exc = None]_vars

\* C14 witness: the choices [A, B, C] were sent as the rows [[A, B], [C]].
C14_Witness ==
  /\ last_sent # NoSent
  /\ last_sent.answer.choices = PyList(<<PyList(<<B_A, B_B>>), PyList(<<B_C>>)>>)
  /\ sent[Len(sent)].reply_markup.rows
       = << <<InlineCell(<<"A">>), InlineCell(<<"B">>)>>, <<InlineCell(<<"C">>)>> >>

\* C26 (as claimed; refuted under Spec): when a handler returned an empty
\* list, prepare_answer ends without anything to send: no answer, and no
\* error reply, is waiting to be sent, and the sent messages, last_sent and
\* query_callback are unchanged.
C26_EmptyListSendsNothing ==
  [][(pc = "Normalizing" /\ answer.ty = "list" /\ answer.items = <<>>)
     => /\ pc' # "Sending"
        /\ pending' = <<>>
        /\ sent' = sent
        /\ last_sent' = last_sent
        /\ query_callback' = query_callback]_vars

\* C25 (as claimed; refuted under Spec): the edit made for a callback query
\* on message M of this session targets M, and its text is the text sent as
\* message M followed by the chosen option.
C25_EditRewritesAnsweredMessage ==
  [][(pc = "CbEdit" /\ Len(edits') = Len(edits) + 1 /\ query.message_id \in 1..Len(sent))
     => /\ edits'[Len(edits')].message_id = query.message_id
        /\ edits'[Len(edits')].text = sent[query.message_id].text \o <<query.data>>]_vars

\* The text answer a resolves to before any substitution.
ResolvedTemplate(a) == Msg([a EXCEPT !.format_content = <<>>], config, language_code).text

\* C24 (as claimed; refuted under SpecAnswer): the text sent for an answer
\* with format arguments is its resolved text with the arguments substituted
\* for the placeholders, with localization on and off.
C24_FormatArgsSubstituted ==
  [][(pc = "Sending" /\ Len(sent') = Len(sent) + 1
      /\ Head(pending).format_content # <<>>
      /\ sent'[Len(sent')].media_type = "text")
     => sent'[Len(sent')].text
          = Format(ResolvedTemplate(Head(pending)), Head(pending).format_content)]_vars

\* C23 (as claimed; refuted under SpecAnswer): an answer with a delay is
\* sent from the position the pipeline is in after suspending for the delay,
\* not straight from the position in which the previous answer left it.
C23_DelayBeforeSend ==
  [][(pc # "Idle" /\ Len(sent') = Len(sent) + 1 /\ Head(pending).delay > 0)
     => pc = "Delaying"]_vars

\* C22: query_callback and last_sent follow the sends and the callback
\* queries and nothing else.  Before the first send there is no last_sent and
\* no key; a successful send makes the answer sent and the new message id the
\* last_sent, and adds the id as a key, bound to the answer's callback, exactly
\* when the answer has one; a callback query removes the key of its message
\* id and no other; no other step changes either.  So last_sent is always the
\* latest message sent, and the keys are ids of sent messages.
C22_SessionBookkeeping ==
  /\ [](/\ last_sent.message_id = Len(sent)
        /\ DOMAIN query_callback \subseteq 1..Len(sent)
        /\ sent = <<>> => query_callback = Empty /\ last_sent = NoSent)
  /\ [][IF Len(sent') = Len(sent) + 1
        THEN LET a == Head(pending)
                 id == Len(sent')
             IN /\ last_sent'.message_id = id
                /\ sent'[id] = Sent(id, Msg(a, config, language_code), GetConfig(a), nev)
                /\ last_sent'.answer.callback = a.callback
                /\ last_sent'.answer.format_content = a.format_content
                /\ last_sent'.answer.keyboard = a.keyboard
                /\ DOMAIN query_callback'
                     = DOMAIN query_callback \cup (IF a.callback # None THEN {id} ELSE {})
                /\ \A k \in DOMAIN query_callback' :
                     query_callback'[k] = IF k = id THEN a.callback ELSE query_callback[k]
        ELSE /\ last_sent' = last_sent
             /\ IF nev' = nev + 1 /\ entry' = "callback"
                THEN /\ DOMAIN query_callback' = DOMAIN query_callback \ {query'.message_id}
                     /\ \A k \in DOMAIN query_callback' : query_callback'[k] = query_callback[k]
                ELSE query_callback' = query_callback]_vars

\* C22 witness: one continuation was consumed, another is pending, and the
\* last message sent, recorded as last_sent, is an answer without callback.
C22_Witness ==
  /\ invoked # <<>>
  /\ DOMAIN query_callback # {}
  /\ Len(sent) >= 4
  /\ last_sent.message_id = Len(sent)
  /\ last_sent.answer.callback = None

\* The last k messages sent are the first k answers of n, sent by the event
\* in progress, which has sent nothing else, and the continuations of these
\* answers are registered under their message ids.
SentPrefix(n, k) ==
  /\ EventSends = (Len(sent) - k + 1)..Len(sent)
  /\ \A i \in 1..k :
       LET id == Len(sent) - k + i
       IN /\ sent[id] = Sent(id, Msg(n[i], config, language_code), GetConfig(n[i]), nev)
          /\ n[i].callback # None
             => (id \in DOMAIN query_callback /\ query_callback[id] = n[i].callback)

\* The answers of the handler result an event is sending; none when the
\* handler raised or returned an empty list.
Batch == IF answer.ty = "none" \/ (answer.ty = "list" /\ answer.items = <<>>)
         THEN <<>> ELSE Normalize(answer)

\* C21: while the answers of a handler result are sent, the messages the
\* event has sent are the first k of the normalized list in order, with their
\* continuations registered, and the rest of the list is waiting; a send that
\* fails sends nothing, registers nothing and ends the list: once recovery has
\* begun, what the event has sent is the first k-1 < n answers, only the error
\* reply waits to be sent, and after the error reply nothing is sent.
C21_SentIsPrefix ==
  /\ []((pc = "Sending" /\ depth = 0)
        => LET k == Len(Batch) - Len(pending)
           IN /\ k >= 0
              /\ pending = SubSeq(Batch, k + 1, Len(Batch))
              /\ SentPrefix(Batch, k))
  /\ []((pc = "Sending" /\ depth > 0)
        => /\ pending = <<Answer(config.error_reply.s, <<>>, None)>>
           /\ \E k \in 0..Len(Batch) : (Batch # <<>> => k < Len(Batch)) /\ SentPrefix(Batch, k))
  /\ [][pc = "Sending"
        => IF Len(sent') = Len(sent) + 1
           THEN /\ sent'[Len(sent')] = Sent(Len(sent'), Msg(Head(pending), config, language_code),
                                            GetConfig(Head(pending)), nev)
                /\ depth > 0 => (sent'[Len(sent')].text = ErrorReplyText /\ pc' # "Sending")
           ELSE /\ sent' = sent
                /\ query_callback' = query_callback
                /\ pc' = "Sending" => depth' = depth + 1]_vars

\* C21 witness: of the answers [hi with a continuation, bye] the first was
\* sent and its continuation is registered, the send of the second failed,
\* and the error reply is waiting.
C21_Witness ==
  /\ pc = "Sending" /\ depth = 1
  /\ answer = PyList(<<A_hi_cb, A_bye>>)
  /\ EventSends = {Len(sent)}
  /\ sent[Len(sent)].text = K_hi
  /\ Len(sent) \in DOMAIN query_callback

====
